---- MODULE Spec2Model ----
(***************************************************************************)
(* Model of the Lunabotics camera stream: client_cv.py captures frames,    *)
(* frames them with a 4-byte big-endian length and writes them on a TCP    *)
(* connection; server_cv.py accepts one connection, reassembles the        *)
(* frames with recv_all and displays them.                                 *)
(*                                                                         *)
(* Lengths are Python ints.  The model's integers are 32-bit signed, so a  *)
(* length is kept as two base-65536 limbs <<hi, lo>> = hi * 65536 + lo;    *)
(* 2^32 - 1, the largest value of struct's "L", is <<65535, 65535>>.       *)
(***************************************************************************)
EXTENDS Integers, Sequences, FiniteSets, TLC

\* ------------------------------------------------------------- bounds
MaxLen == 2          \* longest payload whose bytes the model enumerates
MaxFrames == 2       \* frames the capture device delivers in one run

\* ------------------------------------------------- program constants
MaxAttempts == 5     \* connect_to_server(..., max_attempts=5)
HeaderLen == 4       \* recv_all(conn, 4); struct "!L" is 4 bytes
Limb == 65536        \* base of the two limbs of a length
ByteBase == 256      \* values of one byte

Byte == 0 .. (ByteBase - 1)
\* A reconnect follows a failed send, a send follows a capture: the client
\* establishes at most one connection more than it captures frames.
Conns == 1 .. (MaxFrames + 1)
NoConn == 0

\* ---------------------------------------------------- lengths (limbs)
Big(n) == <<n \div Limb, n % Limb>>
BigLT(a, b) == (a[1] < b[1]) \/ (a[1] = b[1] /\ a[2] < b[2])
BigLE(a, b) == (a = b) \/ BigLT(a, b)
\* a - b for b <= a
BigSub(a, b) ==
    IF a[2] >= b[2] THEN <<a[1] - b[1], a[2] - b[2]>>
    ELSE <<a[1] - b[1] - 1, a[2] + Limb - b[2]>>
\* min(a, k) for a small k, as a small number
BigMin(a, k) == IF BigLE(Big(k), a) THEN k ELSE a[2]

ULongMax == <<Limb - 1, Limb - 1>>

\* ------------------------------------------------------------ framing
\* pack keeping the low 32 bits of a number that does not fit
PackWrap(n) ==
    [ok |-> TRUE,
     bytes |-> <<(n[1] % Limb) \div ByteBase, n[1] % ByteBase,
                 n[2] \div ByteBase, n[2] % ByteBase>>]

\* Pack with the least significant byte first ("<L")
PackLittle(n) ==
    IF BigLE(n, ULongMax)
    THEN [ok |-> TRUE,
          bytes |-> <<n[2] % ByteBase, n[2] \div ByteBase,
                      n[1] % ByteBase, n[1] \div ByteBase>>]
    ELSE [ok |-> FALSE, bytes |-> << >>]

\* struct.pack("!L", n): four bytes, most significant first; struct.error
\* when n does not fit.
Pack(n) ==
    IF BigLE(n, ULongMax)
    THEN [ok |-> TRUE,
          bytes |-> <<n[1] \div ByteBase, n[1] % ByteBase,
                      n[2] \div ByteBase, n[2] % ByteBase>>]
    ELSE [ok |-> FALSE, bytes |-> << >>]

\* unpack taking the first byte as the least significant
UnpackLittle(b) == <<b[4] * ByteBase + b[3], b[2] * ByteBase + b[1]>>

\* struct.unpack('!L', b)[0]
Unpack(b) == <<b[1] * ByteBase + b[2], b[3] * ByteBase + b[4]>>

\* --------------------------------------------------------------- data
\* data = pickle.dumps(compressed_frame): a byte string.  len is len(data);
\* body lists its bytes.  A byte string longer than 2^32 - 1 is carried by
\* its length alone: the code reads len(data) before any byte of it.
\* The bytes of frame i are i, repeated: frames differ in every byte.  A
\* frame's payload is the shortest, one byte, or the longest, MaxLen bytes.
Bodies(i) == {[j \in 1 .. l |-> i] : l \in {1, MaxLen}}
SmallData(i) == {[len |-> Big(Len(b)), body |-> b] : b \in Bodies(i)}
HugeData == {[len |-> <<Limb, 1>>, body |-> << >>]}
DataSet(i) == SmallData(i) \cup HugeData
NoData == [len |-> <<0, 0>>, body |-> << >>]

Take(s, k) == SubSeq(s, 1, k)

\* recv_all's results
Pending == [kind |-> "pending", bytes |-> << >>]
None == [kind |-> "none", bytes |-> << >>]
Bytes(b) == [kind |-> "bytes", bytes |-> b]

VARIABLES
    \* client_cv.py
    cpc,        \* position of main()
    ccall,      \* the running call of connect_to_server: "initial", "reconnect"
    attempt,    \* connect_to_server's attempt
    tries,      \* socket.connect() calls made by the running connect_to_server
    csock,      \* clientsocket: the connection it is bound to
    capOpen,    \* the capture device is held
    nCaptured,  \* frames read from the capture device
    lastRead,   \* the last cap.read(): "ok", "failed" or "none"
    frame,      \* the frame in hand: [id, data]
    hdr,        \* message_size
    sendCalls,  \* ids of the frames handed to send_frame, in order
    sendRet,    \* what the last send_frame returned or raised
    connCalls,  \* calls of connect_to_server made for the last failed send
    cexit,      \* how main() ended: the message it printed last
    \* the network
    nconn,      \* connections established so far
    wire,       \* per connection: the bytes the client wrote
    msgs,       \* per connection: the messages written, whole or in part
    cclosed,    \* per connection: the client's end is closed
    acceptQ,    \* established connections waiting in the listen backlog
    \* server_cv.py
    spc,        \* position of main()
    listening,  \* the listening socket is open
    sconn,      \* conn: the accepted connection
    rpos,       \* bytes of the connection consumed by recv
    rN,         \* recv_all's n
    rData,      \* recv_all's data
    rRet,       \* recv_all's result
    rStart,     \* rpos when recv_all was called
    rSplit,     \* some recv of the call returned fewer bytes than asked
    rCause,     \* why the call gave up: "eof", "error" or "none"
    delivered,  \* the payloads handed to pickle.loads, in order
    shown,      \* frames displayed
    sFailed,    \* a read or a decode has failed
    quit,       \* 'q' was pressed in the window and no waitKey has taken it
    sclosed,    \* conn.close() was called on the accepted connection
    window      \* the display window exists

kvars == <<ccall, attempt, tries>>
fvars == <<frame, hdr>>
hvars == <<nCaptured, lastRead, sendCalls, sendRet, connCalls>>
xvars == <<capOpen, cexit>>
cvars == <<cpc, kvars, csock, xvars, fvars, hvars>>
wvars == <<wire, msgs>>
nvars == <<nconn, wvars, cclosed, acceptQ>>
rvars == <<rN, rData, rRet, rStart, rSplit, rCause>>
qvars == <<quit, sclosed, window>>
svars == <<spc, listening, sconn, rpos, rvars, delivered, shown, sFailed,
           qvars>>
vars == <<cvars, nvars, svars>>

NoFrame == [id |-> 0, data |-> NoData]
AllClosed == [c \in Conns |-> TRUE]

Init ==
    /\ cpc = "open" /\ ccall = "none" /\ attempt = 0 /\ tries = 0
    /\ csock = NoConn /\ capOpen = FALSE /\ nCaptured = 0 /\ lastRead = "none"
    /\ frame = NoFrame /\ hdr = << >> /\ sendCalls = << >>
    /\ sendRet = "none" /\ connCalls = 0 /\ cexit = "none"
    /\ nconn = 0
    /\ wire = [c \in Conns |-> << >>]
    /\ msgs = [c \in Conns |-> << >>]
    /\ cclosed = [c \in Conns |-> FALSE]
    /\ acceptQ = << >>
    /\ spc = "socket" /\ listening = FALSE /\ sconn = NoConn /\ rpos = 0
    /\ rN = <<0, 0>> /\ rData = << >> /\ rRet = Pending /\ rStart = 0
    /\ rSplit = FALSE /\ rCause = "none" /\ delivered = << >> /\ shown = 0
    /\ sFailed = FALSE
    /\ quit = FALSE /\ sclosed = FALSE /\ window = FALSE

\* ======================================================== client_cv.py
\* The process ends: its locals are gone and its sockets are closed.
ClientExit ==
    /\ cclosed' = AllClosed
    /\ ccall' = "none" /\ attempt' = 0 /\ tries' = 0
    /\ hdr' = << >>

\* ---- main(): break, then the cleanup after the loop:
\* clientsocket.close() (errors ignored); cap.release(); main() returns
BreakAndCleanup(msg) ==
    /\ cexit' = msg
    /\ capOpen' = FALSE
    /\ ClientExit
    /\ cpc' = "done"

\* ---- main(): cap = cv2.VideoCapture(0); cap.isOpened(); then the initial
\* connect_to_server(): attempt = 0
OpenCaptureOk ==
    /\ cpc = "open"
    /\ capOpen' = TRUE
    /\ cpc' = "connect" /\ ccall' = "initial" /\ attempt' = 0 /\ tries' = 0
    /\ UNCHANGED <<csock, cexit, fvars, hvars, nvars, svars>>

\* ---- main(): if not cap.isOpened(): return
OpenCaptureFail ==
    /\ cpc = "open"
    /\ cpc' = "done"
    /\ cexit' = "Error: Could not open video capture"
    /\ UNCHANGED <<kvars, csock, capOpen, fvars, hvars, nvars, svars>>

\* ---- connect_to_server(): a pass of the while loop whose connect
\* succeeds: return clientsocket
ConnectOk ==
    /\ cpc = "connect" /\ attempt < MaxAttempts
    /\ listening
    /\ nconn' = nconn + 1
    /\ acceptQ' = Append(acceptQ, nconn + 1)
    /\ tries' = tries + 1
    /\ cpc' = "connected"
    /\ UNCHANGED <<ccall, attempt, csock, xvars, fvars, hvars, wvars,
                   cclosed, svars>>

\* a failed pass that does not count itself
ConnectFailNoCount ==
    /\ cpc = "connect" /\ attempt < MaxAttempts
    /\ attempt' = attempt
    /\ tries' = tries + 1
    /\ UNCHANGED <<cpc, ccall, csock, xvars, fvars, hvars, nvars, svars>>

\* ---- connect_to_server(): except socket.error: attempt += 1, and the
\* sleep before the next pass
ConnectFail ==
    /\ cpc = "connect" /\ attempt < MaxAttempts
    /\ attempt' = attempt + 1
    /\ tries' = tries + 1
    /\ UNCHANGED <<cpc, ccall, csock, xvars, fvars, hvars, nvars, svars>>

\* ---- connect_to_server(): the loop ends: raise Exception
ConnectGiveUp ==
    /\ cpc = "connect" /\ ~(attempt < MaxAttempts)
    /\ cpc' = "connfailed"
    /\ UNCHANGED <<kvars, csock, xvars, fvars, hvars, nvars, svars>>

\* a reconnect that sends the frame in hand again
BindSocketRetry ==
    /\ cpc = "connected"
    /\ csock' = nconn
    /\ cpc' = IF ccall = "reconnect" THEN "send" ELSE "read"
    /\ ccall' = "none" /\ attempt' = 0 /\ tries' = 0
    /\ UNCHANGED <<xvars, fvars, hvars, nvars, svars>>

\* ---- main(): clientsocket = connect_to_server() has returned; the
\* loop goes on with cap.read()
BindSocket ==
    /\ cpc = "connected"
    /\ csock' = nconn
    /\ ccall' = "none" /\ attempt' = 0 /\ tries' = 0
    /\ cpc' = "read"
    /\ UNCHANGED <<xvars, fvars, hvars, nvars, svars>>

\* ---- main(): except Exception around the initial connect:
\* cap.release(); return
InitialConnectFailed ==
    /\ cpc = "connfailed" /\ ccall = "initial"
    /\ BreakAndCleanup("Failed to establish initial connection")
    /\ UNCHANGED <<csock, frame, hvars, nconn, wvars, acceptQ, svars>>

\* ---- main(): except Exception around the reconnect: break
ReconnectFailed ==
    /\ cpc = "connfailed" /\ ccall = "reconnect"
    /\ BreakAndCleanup("Reconnection failed")
    /\ UNCHANGED <<csock, frame, hvars, nconn, wvars, acceptQ, svars>>

\* a failed read that ends the loop
ReadFailBreak ==
    /\ cpc = "read"
    /\ lastRead' = "failed"
    /\ BreakAndCleanup("Error: Could not read frame")
    /\ UNCHANGED <<csock, frame, nCaptured, sendCalls, sendRet, connCalls,
                   nconn, wvars, acceptQ, svars>>

\* ---- main(): ret, frame = cap.read(); if not ret: continue
ReadFail ==
    /\ cpc = "read"
    /\ lastRead' = "failed"
    /\ UNCHANGED <<cpc, kvars, csock, xvars, fvars, nCaptured, sendCalls,
                   sendRet, connCalls, nvars, svars>>

\* ---- main(): ret, frame = cap.read() gives a frame
ReadOk ==
    /\ cpc = "read" /\ nCaptured < MaxFrames
    /\ \E d \in DataSet(nCaptured + 1) :
          frame' = [id |-> nCaptured + 1, data |-> d]
    /\ nCaptured' = nCaptured + 1
    /\ lastRead' = "ok"
    /\ cpc' = "send"
    /\ UNCHANGED <<kvars, csock, xvars, hdr, sendCalls, sendRet, connCalls,
                   nvars, svars>>

\* ---- send_frame(): imencode, pickle.dumps, struct.pack.  struct.error is
\* not a socket.error: it leaves send_frame, and main() breaks on it.
SendFramePack ==
    /\ cpc = "send"
    /\ sendCalls' = Append(sendCalls, frame.id)
    /\ LET p == Pack(frame.data.len) IN
         IF p.ok
         THEN /\ hdr' = p.bytes /\ cpc' = "sendhdr" /\ sendRet' = "none"
              /\ UNCHANGED <<kvars, xvars, cclosed>>
         ELSE /\ sendRet' = "struct.error"
              /\ BreakAndCleanup("Unexpected error")
    /\ UNCHANGED <<csock, frame, nCaptured, lastRead, connCalls, nconn, wvars,
                   acceptQ, svars>>

\* ---- send_frame(): cv2.imencode raises (cv2.error is no socket.error)
SendFrameEncodeError ==
    /\ cpc = "send"
    /\ sendCalls' = Append(sendCalls, frame.id)
    /\ sendRet' = "cv2.error"
    /\ BreakAndCleanup("Unexpected error")
    /\ UNCHANGED <<csock, frame, nCaptured, lastRead, connCalls, nconn, wvars,
                   acceptQ, svars>>

\* the message begun on the connection: k bytes of its header are out
BeginMsg(k) ==
    /\ wire' = [wire EXCEPT ![csock] = @ \o Take(hdr, k)]
    /\ msgs' = [msgs EXCEPT ![csock] =
                  Append(@, [frame |-> frame.id, data |-> frame.data,
                             hdrN |-> k, bodyN |-> 0])]

\* k bytes of the payload follow the header
ContinueMsg(k) ==
    /\ wire' = [wire EXCEPT ![csock] = @ \o Take(frame.data.body, k)]
    /\ msgs' = [msgs EXCEPT ![csock] =
                  [@ EXCEPT ![Len(@)] = [@ EXCEPT !.bodyN = k]]]

\* ---- send_frame(): clientsocket.sendall(message_size)
SendHeaderOk ==
    /\ cpc = "sendhdr"
    /\ BeginMsg(Len(hdr))
    /\ cpc' = "senddata"
    /\ UNCHANGED <<kvars, csock, xvars, fvars, hvars, nconn, cclosed,
                   acceptQ, svars>>

\* sendall raises socket.error with k < 4 bytes out: return False
SendHeaderFail ==
    /\ cpc = "sendhdr"
    /\ \E k \in 0 .. (Len(hdr) - 1) : BeginMsg(k)
    /\ cpc' = "sendfail" /\ sendRet' = "False" /\ connCalls' = 0
    /\ hdr' = << >>
    /\ UNCHANGED <<kvars, csock, xvars, frame, nCaptured, lastRead,
                   sendCalls, nconn, cclosed, acceptQ, svars>>

\* ---- send_frame(): clientsocket.sendall(data); return True
SendDataOk ==
    /\ cpc = "senddata"
    /\ ContinueMsg(Len(frame.data.body))
    /\ cpc' = "read" /\ sendRet' = "True"
    /\ hdr' = << >>
    /\ UNCHANGED <<kvars, csock, xvars, frame, nCaptured, lastRead,
                   sendCalls, connCalls, nconn, cclosed, acceptQ, svars>>

\* a send_frame that reports success after a partial sendall(data)
SendDataFailTrue ==
    /\ cpc = "senddata"
    /\ \E k \in 0 .. (Len(frame.data.body) - 1) : ContinueMsg(k)
    /\ cpc' = "read" /\ sendRet' = "True"
    /\ hdr' = << >>
    /\ UNCHANGED <<kvars, csock, xvars, frame, nCaptured, lastRead,
                   sendCalls, connCalls, nconn, cclosed, acceptQ, svars>>

\* sendall raises socket.error with part of data out: return False
SendDataFail ==
    /\ cpc = "senddata"
    /\ \E k \in 0 .. (Len(frame.data.body) - 1) : ContinueMsg(k)
    /\ cpc' = "sendfail" /\ sendRet' = "False" /\ connCalls' = 0
    /\ hdr' = << >>
    /\ UNCHANGED <<kvars, csock, xvars, frame, nCaptured, lastRead,
                   sendCalls, nconn, cclosed, acceptQ, svars>>

\* a reconnect that counts the failed send as its first attempt
ReconnectCloseCounted ==
    /\ cpc = "sendfail"
    /\ cclosed' = [cclosed EXCEPT ![csock] = TRUE]
    /\ cpc' = "connect" /\ ccall' = "reconnect" /\ attempt' = 1 /\ tries' = 0
    /\ connCalls' = connCalls + 1
    /\ UNCHANGED <<csock, xvars, fvars, nCaptured, lastRead, sendCalls,
                   sendRet, nconn, wvars, acceptQ, svars>>

\* ---- main(): if not send_frame(...): clientsocket.close();
\* clientsocket = connect_to_server()
ReconnectClose ==
    /\ cpc = "sendfail"
    /\ cclosed' = [cclosed EXCEPT ![csock] = TRUE]
    /\ cpc' = "connect" /\ ccall' = "reconnect" /\ attempt' = 0 /\ tries' = 0
    /\ connCalls' = connCalls + 1
    /\ UNCHANGED <<csock, xvars, fvars, nCaptured, lastRead, sendCalls,
                   sendRet, nconn, wvars, acceptQ, svars>>

\* clientsocket.close() raises: except Exception: print "Reconnection
\* failed"; break
ReconnectCloseError ==
    /\ cpc = "sendfail"
    /\ BreakAndCleanup("Reconnection failed")
    /\ UNCHANGED <<csock, frame, hvars, nconn, wvars, acceptQ, svars>>

\* ---- main(): except KeyboardInterrupt: break.  An interrupt inside a
\* sendall leaves what the sendall had written.
InterruptLoop ==
    /\ \/ /\ cpc \in {"read", "send", "sendfail"}
          /\ UNCHANGED wvars
       \/ /\ cpc \in {"connect", "connected", "connfailed"}
          /\ ccall = "reconnect"
          /\ UNCHANGED wvars
       \/ /\ cpc = "sendhdr"
          /\ \E k \in 0 .. Len(hdr) : BeginMsg(k)
       \/ /\ cpc = "senddata"
          /\ \E k \in 0 .. Len(frame.data.body) : ContinueMsg(k)
    /\ BreakAndCleanup("Stopping client...")
    /\ UNCHANGED <<csock, frame, hvars, nconn, acceptQ, svars>>

\* KeyboardInterrupt during the initial connect, outside the loop's try:
\* nothing catches it and the process ends.
InterruptOutside ==
    /\ cpc \in {"connect", "connected", "connfailed"} /\ ccall = "initial"
    /\ ClientExit
    /\ cexit' = "KeyboardInterrupt"
    /\ cpc' = "crashed"
    /\ UNCHANGED <<csock, capOpen, frame, hvars, nconn, wvars, acceptQ,
                   svars>>

ClientNext ==
    \/ OpenCaptureOk \/ OpenCaptureFail
    \/ ConnectOk \/ ConnectFail \/ ConnectGiveUp
    \/ BindSocket \/ InitialConnectFailed \/ ReconnectFailed
    \/ ReadFail \/ ReadOk
    \/ SendFramePack \/ SendFrameEncodeError
    \/ SendHeaderOk \/ SendHeaderFail \/ SendDataOk \/ SendDataFail
    \/ ReconnectClose \/ ReconnectCloseError
    \/ InterruptLoop \/ InterruptOutside

\* ======================================================== server_cv.py
\* the bytes of the accepted connection not yet consumed
Avail == Len(wire[sconn]) - rpos

\* recv_all asking for n bytes on every pass
RecvRequestWhole(n, data) == n

\* ---- recv_all(): the size asked of conn.recv: n - len(data)
RecvRequest(n, data) == BigSub(n, Big(Len(data)))

\* ---- recv_all(): data = bytearray(); while len(data) < n: ...; return
\* bytes(data).  The state of a call before its first recv.
CallRecvAll(n) ==
    /\ rN' = n
    /\ rData' = << >>
    /\ rStart' = rpos
    /\ rSplit' = FALSE
    /\ rCause' = "none"
    /\ rRet' = IF BigLT(<<0, 0>>, n) THEN Pending ELSE Bytes(<< >>)

\* recv_all's locals once receive_frame has its result
ReturnRecvAll ==
    /\ rN' = <<0, 0>> /\ rData' = << >> /\ rStart' = 0 /\ rRet' = Pending
    /\ rSplit' = FALSE /\ rCause' = "none"

\* a finally that does not close conn
SrvFinallyNoClose ==
    /\ ReturnRecvAll
    /\ rpos' = 0
    /\ listening' = FALSE
    /\ sclosed' = sclosed
    /\ window' = FALSE /\ quit' = FALSE
    /\ spc' = "done"

\* ---- main(): the loop is left; finally: conn.close()
\* (NameError when no connection was accepted); cv2.destroyAllWindows(); the
\* process ends
SrvFinally ==
    /\ ReturnRecvAll
    /\ rpos' = 0
    /\ listening' = FALSE
    /\ sclosed' = (sconn # NoConn)
    /\ window' = FALSE /\ quit' = FALSE
    /\ spc' = "done"

\* ---- create_server_socket(): socket, setsockopt, bind, listen
SrvListen ==
    /\ spc = "socket"
    /\ listening' = TRUE
    /\ spc' = "accept"
    /\ UNCHANGED <<sconn, rpos, rvars, delivered, shown, sFailed,
                   qvars, cvars, nvars>>

\* bind, listen or accept raises: main()'s except Exception, then finally
SrvSetupError ==
    /\ spc \in {"socket", "accept"}
    /\ SrvFinally
    /\ UNCHANGED <<sconn, delivered, shown, sFailed, cvars, nvars>>

\* ---- create_server_socket(): conn, addr = server_socket.accept(); return.
\* server_socket is a local of create_server_socket: the return drops the
\* last reference to it and the listening socket is closed.  main() then
\* opens the window (cv2.namedWindow) and calls receive_frame, which calls recv_all(conn, 4).
SrvAccept ==
    /\ spc = "accept"
    /\ acceptQ # << >>
    /\ sconn' = Head(acceptQ)
    /\ acceptQ' = Tail(acceptQ)
    /\ listening' = FALSE
    /\ window' = TRUE
    /\ spc' = "hdr"
    /\ CallRecvAll(Big(HeaderLen))
    /\ UNCHANGED <<rpos, delivered, shown, sFailed, quit, sclosed, cvars,
                   nconn, wvars, cclosed>>

\* ---- recv_all(): packet = conn.recv(n - len(data)); data.extend(packet).
\* recv returns between 1 and the requested number of the bytes at hand.
RecvChunk ==
    /\ spc \in {"hdr", "payload"} /\ rRet = Pending
    /\ Avail > 0
    /\ \E k \in 1 .. BigMin(RecvRequest(rN, rData), Avail) :
         LET data == rData \o SubSeq(wire[sconn], rpos + 1, rpos + k) IN
           /\ rData' = data
           /\ rpos' = rpos + k
           /\ rSplit' = (rSplit \/ Big(k) # RecvRequest(rN, rData))
           /\ rRet' = IF BigLT(Big(Len(data)), rN) THEN Pending
                      ELSE Bytes(data)
    /\ UNCHANGED <<spc, listening, sconn, rN, rStart, rCause, delivered,
                   shown, sFailed, qvars, cvars, nvars>>

\* recv_all returning what it has when the peer closed
RecvEofShort ==
    /\ spc \in {"hdr", "payload"} /\ rRet = Pending
    /\ Avail = 0 /\ cclosed[sconn]
    /\ rRet' = Bytes(rData)
    /\ rCause' = "eof"
    /\ sFailed' = TRUE
    /\ UNCHANGED <<spc, listening, sconn, rpos, rN, rData, rStart, rSplit,
                   delivered, shown, qvars, cvars, nvars>>

\* ---- recv_all(): if not packet: return None (the peer closed and every
\* byte it wrote is consumed)
RecvEof ==
    /\ spc \in {"hdr", "payload"} /\ rRet = Pending
    /\ Avail = 0 /\ cclosed[sconn]
    /\ rRet' = None
    /\ rCause' = "eof"
    /\ sFailed' = TRUE
    /\ UNCHANGED <<spc, listening, sconn, rpos, rN, rData, rStart, rSplit,
                   delivered, shown, qvars, cvars, nvars>>

\* recv_all letting the socket.error through
RecvErrorRaise ==
    /\ spc \in {"hdr", "payload"} /\ rRet = Pending
    /\ rRet' = [kind |-> "raise", bytes |-> << >>]
    /\ rCause' = "error"
    /\ sFailed' = TRUE
    /\ UNCHANGED <<spc, listening, sconn, rpos, rN, rData, rStart, rSplit,
                   delivered, shown, qvars, cvars, nvars>>

\* ---- recv_all(): except socket.error: return None
RecvError ==
    /\ spc \in {"hdr", "payload"} /\ rRet = Pending
    /\ rRet' = None
    /\ rCause' = "error"
    /\ sFailed' = TRUE
    /\ UNCHANGED <<spc, listening, sconn, rpos, rN, rData, rStart, rSplit,
                   delivered, shown, qvars, cvars, nvars>>

\* a server that goes back to accept when the stream fails
ReceiveFrameNoneReaccept ==
    /\ spc \in {"hdr", "payload"} /\ rRet = None
    /\ ReturnRecvAll
    /\ rpos' = 0
    /\ spc' = "accept"
    /\ UNCHANGED <<listening, sconn, delivered, shown, sFailed, qvars, cvars,
                   nvars>>

\* ---- receive_frame(): if size_data is None / frame_data is None: return
\* None; main(): if frame is None: break
ReceiveFrameNone ==
    /\ spc \in {"hdr", "payload"} /\ rRet = None
    /\ SrvFinally
    /\ UNCHANGED <<sconn, delivered, shown, sFailed, cvars, nvars>>

\* ---- receive_frame(): size = struct.unpack('!L', size_data)[0];
\* frame_data = recv_all(conn, size)
HeaderDone ==
    /\ spc = "hdr" /\ rRet.kind = "bytes"
    /\ CallRecvAll(Unpack(rRet.bytes))
    /\ spc' = "payload"
    /\ UNCHANGED <<listening, sconn, rpos, delivered, shown, sFailed,
                   qvars, cvars, nvars>>

\* ---- receive_frame(): pickle.loads(frame_data); cv2.imdecode(...);
\* return frame
DecodeOk ==
    /\ spc = "payload" /\ rRet.kind = "bytes"
    /\ delivered' = Append(delivered, rRet.bytes)
    /\ ReturnRecvAll
    /\ spc' = "show"
    /\ UNCHANGED <<listening, sconn, rpos, shown, sFailed, qvars, cvars,
                   nvars>>

\* a frame that does not decode is handed to cv2.imshow all the same
DecodeFailShown ==
    /\ spc = "payload" /\ rRet.kind = "bytes"
    /\ delivered' = Append(delivered, rRet.bytes)
    /\ sFailed' = TRUE
    /\ ReturnRecvAll
    /\ spc' = "show"
    /\ UNCHANGED <<listening, sconn, rpos, shown, qvars, cvars, nvars>>

\* a frame that does not decode is skipped and the loop goes on
DecodeFailSkip ==
    /\ spc = "payload" /\ rRet.kind = "bytes"
    /\ delivered' = Append(delivered, rRet.bytes)
    /\ sFailed' = TRUE
    /\ spc' = "hdr"
    /\ CallRecvAll(Big(HeaderLen))
    /\ UNCHANGED <<listening, sconn, rpos, shown, qvars, cvars, nvars>>

\* pickle.loads raises or cv2.imdecode gives None: receive_frame returns
\* None or raises, and main() leaves the loop either way
DecodeFail ==
    /\ spc = "payload" /\ rRet.kind = "bytes"
    /\ delivered' = Append(delivered, rRet.bytes)
    /\ sFailed' = TRUE
    /\ SrvFinally
    /\ UNCHANGED <<sconn, shown, cvars, nvars>>

\* ---- main(): cv2.imshow; waitKey is not 'q': the next receive_frame
ShowContinue ==
    /\ spc = "show" /\ ~quit
    /\ shown' = shown + 1
    /\ spc' = "hdr"
    /\ CallRecvAll(Big(HeaderLen))
    /\ UNCHANGED <<listening, sconn, rpos, delivered, sFailed, qvars, cvars,
                   nvars>>

\* ---- main(): cv2.imshow; waitKey is 'q': break
ShowQuit ==
    /\ spc = "show" /\ quit
    /\ shown' = shown + 1
    /\ SrvFinally
    /\ UNCHANGED <<sconn, delivered, sFailed, cvars, nvars>>

\* the user presses 'q' in the window; the key waits for the next
\* cv2.waitKey
PressQuit ==
    /\ window /\ ~quit
    /\ quit' = TRUE
    /\ UNCHANGED <<spc, listening, sconn, rpos, rvars, delivered, shown,
                   sFailed, sclosed, window, cvars, nvars>>

\* ---- main(): except KeyboardInterrupt, then finally
SrvInterrupt ==
    /\ spc \in {"socket", "accept", "hdr", "payload", "show"}
    /\ SrvFinally
    /\ UNCHANGED <<sconn, delivered, shown, sFailed, cvars, nvars>>

ServerNext ==
    \/ SrvListen \/ SrvSetupError \/ SrvAccept
    \/ RecvChunk \/ RecvEof \/ RecvError \/ ReceiveFrameNone
    \/ HeaderDone \/ DecodeOk \/ DecodeFail
    \/ ShowContinue \/ ShowQuit \/ PressQuit
    \/ SrvInterrupt

Next == ClientNext \/ ServerNext

Spec == Init /\ [][Next]_vars

\* The steps each program takes by itself once they are possible.  The
\* client's socket has settimeout(5): its connect and sendall return or
\* raise.  The server sets no timeout: accept and recv return when a
\* connection, bytes or the end of the stream are there.  The camera's
\* frames, the faults of the network, the keys and the interrupts are the
\* environment's and are not promised.
ClientRun ==
    \/ OpenCaptureOk \/ OpenCaptureFail
    \/ ConnectOk \/ ConnectFail \/ ConnectGiveUp
    \/ BindSocket \/ InitialConnectFailed \/ ReconnectFailed
    \/ SendFramePack \/ SendFrameEncodeError
    \/ SendHeaderOk \/ SendHeaderFail \/ SendDataOk \/ SendDataFail
    \/ ReconnectClose \/ ReconnectCloseError

ServerRun ==
    \/ SrvListen \/ SrvAccept
    \/ RecvChunk \/ RecvEof \/ ReceiveFrameNone
    \/ HeaderDone \/ DecodeOk \/ DecodeFail
    \/ ShowContinue \/ ShowQuit

FairSpec == Spec /\ WF_vars(ClientRun) /\ WF_vars(ServerRun)

\* =============================================================== claims
\* the bytes of a message that are on the wire
MsgBytes(m) == m.hdrN + m.bodyN

\* the bytes written on a connection before its i-th message
RECURSIVE Offset(_, _)
Offset(ms, i) == IF i <= 1 THEN 0 ELSE Offset(ms, i - 1) + MsgBytes(ms[i - 1])

Complete(m) == m.hdrN = HeaderLen /\ m.bodyN = Len(m.data.body)

\* lengths around every carry of the four header bytes
LimbSamples == {0, 1, ByteBase - 1, ByteBase, ByteBase + 1, Limb - 1}
LenSamples == {<<h, l>> : h \in LimbSamples, l \in LimbSamples}
\* unpack(pack(n)) = n on the samples
PackRoundTrips == \A n \in LenSamples : Pack(n).ok /\ Unpack(Pack(n).bytes) = n

\* C1: framing round trip.  Every header that is whole on a connection
\* parses to the length of its payload, which fits 32 bits, and the bytes
\* after it are the payload's, unchanged and in order; and for lengths up
\* to 2^32 - 1 around every byte carry, unpack(pack(n)) = n.
C1_FramingRoundTrip ==
    /\ \A c \in Conns : \A i \in 1 .. Len(msgs[c]) :
         LET m == msgs[c][i]
             off == Offset(msgs[c], i)
         IN  /\ SubSeq(wire[c], off + 1, off + m.hdrN)
                  = Take(Pack(m.data.len).bytes, m.hdrN)
             /\ m.hdrN = HeaderLen =>
                  /\ BigLE(m.data.len, ULongMax)
                  /\ Unpack(SubSeq(wire[c], off + 1, off + HeaderLen))
                       = m.data.len
                  /\ SubSeq(wire[c], off + HeaderLen + 1,
                            off + HeaderLen + m.bodyN)
                       = Take(m.data.body, m.bodyN)
    /\ \A c \in Conns :
         Len(wire[c]) = Offset(msgs[c], Len(msgs[c]) + 1)
    /\ PackRoundTrips

\* a connection carries a whole message with a payload of two bytes
C1_Witness ==
    \E c \in Conns : \E i \in 1 .. Len(msgs[c]) :
       Complete(msgs[c][i]) /\ Len(msgs[c][i].data.body) = 2

\* C2: partial reads.  However recv splits the bytes, a recv_all that
\* returns bytes returns exactly the n bytes that followed its starting
\* position, in order; what it holds meanwhile is what it consumed; and it
\* never consumes a byte beyond the n it was asked for.
C2_PartialRead ==
    spc \in {"hdr", "payload"} =>
      /\ BigLE(Big(rpos - rStart), rN)
      /\ rData = SubSeq(wire[sconn], rStart + 1, rpos)
      /\ rRet.kind = "bytes" =>
           /\ Big(Len(rRet.bytes)) = rN
           /\ rRet.bytes = SubSeq(wire[sconn], rStart + 1, rpos)

\* a payload of two bytes was returned after a short recv, with bytes of
\* the next message at hand
C2_Witness ==
    /\ spc = "payload" /\ rRet.kind = "bytes" /\ rSplit
    /\ Len(rRet.bytes) = 2
    /\ Avail > 0

\* C3: premature close.  End-of-stream after k < n bytes makes recv_all
\* return None, never the k bytes; a byte string it returns has n bytes.
C3_PrematureClose ==
    /\ rCause = "eof" => (rRet = None /\ BigLT(Big(Len(rData)), rN))
    /\ rRet.kind = "bytes" => Big(Len(rRet.bytes)) = rN

\* the peer closed after one byte or more of the bytes asked for
C3_Witness ==
    rCause = "eof" /\ rRet = None /\ Len(rData) >= 1

Last(q) == q[Len(q)]

\* C4: connect is bounded.  A call of connect_to_server makes at most
\* MaxAttempts socket connects: as many as have failed while it runs, one
\* more when it returns a socket, which it does only from a connect that
\* succeeded (one connect when the first succeeds), and exactly MaxAttempts,
\* all failed, when it raises.
C4_ConnectBounded ==
    /\ tries <= MaxAttempts
    /\ cpc = "connect" => tries = attempt
    /\ cpc = "connected" =>
         /\ tries = attempt + 1
         /\ attempt = 0 => tries = 1
         /\ nconn \in Conns /\ csock # nconn
    /\ cpc = "connfailed" => (tries = MaxAttempts /\ attempt = MaxAttempts)

\* a reconnect has used up its attempts
C4_Witness ==
    cpc = "connfailed" /\ ccall = "reconnect" /\ tries = MaxAttempts

\* C5: drop on failure.  No frame is handed to send_frame twice, no frame
\* has bytes in two messages, and the first message on a connection made by
\* a reconnect is that of the frame captured after the one whose send
\* failed, beginning with its header.
C5_AtMostOnce ==
    /\ \A i \in 1 .. Len(sendCalls) - 1 : sendCalls[i] < sendCalls[i + 1]
    /\ \A c1, c2 \in Conns :
         \A i1 \in 1 .. Len(msgs[c1]) : \A i2 \in 1 .. Len(msgs[c2]) :
            msgs[c1][i1].frame = msgs[c2][i2].frame => (c1 = c2 /\ i1 = i2)
    /\ \A c \in Conns :
         (c > 1 /\ msgs[c] # << >>) =>
            /\ msgs[c - 1] # << >>
            /\ ~Complete(Last(msgs[c - 1]))
            /\ msgs[c][1].frame = Last(msgs[c - 1]).frame + 1
            /\ SubSeq(wire[c], 1, msgs[c][1].hdrN)
                 = Take(Pack(msgs[c][1].data.len).bytes, msgs[c][1].hdrN)

\* after a failed send and a reconnect the next frame's header is out on
\* the new connection
C5_Witness ==
    /\ msgs[1] # << >> /\ ~Complete(Last(msgs[1]))
    /\ msgs[2] # << >> /\ msgs[2][1].hdrN = HeaderLen

\* C6: each failed send triggers exactly one reconnect.  Once main() is
\* past a send_frame that returned False, and unless an interrupt ended the
\* loop, connect_to_server has been called once for it.
C6_ExactlyOneReconnect ==
    /\ connCalls <= 1
    /\ (sendRet = "False" /\ cpc # "sendfail" /\ cexit # "Stopping client...")
          => connCalls = 1

\* lengths that do not fit 32 bits
OversizeSamples == {<<h, l>> : h \in {Limb, Limb + 1}, l \in LimbSamples}
\* struct.pack raises on each of them
OversizeRejected == \A n \in OversizeSamples : ~Pack(n).ok

\* C7: oversized payload.  A payload longer than 2^32 - 1 makes struct.pack
\* raise: send_frame ends with that error and main() with it, and no byte of
\* the payload's message, header or payload, is on any connection.
C7_Oversized ==
    /\ \A c \in Conns : \A i \in 1 .. Len(msgs[c]) :
         ~BigLE(msgs[c][i].data.len, ULongMax) => MsgBytes(msgs[c][i]) = 0
    /\ \A c \in Conns : Len(wire[c]) = Offset(msgs[c], Len(msgs[c]) + 1)
    /\ (sendCalls # << >> /\ Last(sendCalls) = frame.id
          /\ ~BigLE(frame.data.len, ULongMax))
         => /\ sendRet \in {"struct.error", "cv2.error"}
            /\ cpc = "done" /\ cexit = "Unexpected error"
            /\ \A c \in Conns : \A i \in 1 .. Len(msgs[c]) :
                  msgs[c][i].frame # frame.id
    /\ sendRet = "struct.error" => ~BigLE(frame.data.len, ULongMax)
    /\ OversizeRejected

\* the second frame is oversized: the first is whole on the connection and
\* nothing follows it
C7_Witness ==
    /\ sendRet = "struct.error" /\ frame.id = 2
    /\ Len(msgs[1]) = 1 /\ Complete(msgs[1][1])

\* C8: end to end.  On the accepted connection every header is read from a
\* message boundary, the payload read takes the length the client packed
\* and starts after the header, and the payloads handed to the decoder are,
\* in order and byte for byte, the first payloads the client wrote whole.
C8_EndToEnd ==
    sconn # NoConn =>
      LET ms == msgs[sconn]
          d == Len(delivered)
      IN  /\ d <= Len(ms)
          /\ \A i \in 1 .. d :
                Complete(ms[i]) /\ delivered[i] = ms[i].data.body
          /\ spc = "hdr" => rStart = Offset(ms, d + 1)
          /\ spc = "payload" =>
                /\ d < Len(ms)
                /\ ms[d + 1].hdrN = HeaderLen
                /\ rN = ms[d + 1].data.len
                /\ rStart = Offset(ms, d + 1) + HeaderLen

\* two payloads were delivered and the first displayed
C8_Witness ==
    Len(delivered) = 2 /\ delivered[1] # delivered[2] /\ shown >= 1

\* C9: a server failure is terminal.  Once a read or a decode has failed,
\* the server is returning from the failed recv_all or has left the loop,
\* and it consumes no byte, decodes and displays nothing from then on.
C9_FailureTerminal ==
    /\ [](sFailed => (spc = "done" \/ (spc \in {"hdr", "payload"} /\ rRet = None)))
    /\ [][sFailed => /\ shown' = shown
                     /\ delivered' = delivered
                     /\ rpos' <= rpos
                     /\ spc' \in {spc, "done"}]_vars

\* the first payload did not decode; the second message, whole on the
\* connection, is never read
C9_Witness ==
    /\ sFailed /\ spc = "done" /\ sconn # NoConn
    /\ Len(delivered) = 1 /\ shown = 0
    /\ Len(msgs[sconn]) = 2 /\ Complete(msgs[sconn][2])

\* C10 as claimed: end-of-stream and an I/O fault are told apart by what
\* recv_all gives: None stands for end-of-stream (its docstring), and a
\* fault gives something else.
C10_Distinguishable ==
    /\ rCause = "eof" => rRet = None
    /\ rCause = "error" => rRet # None

\* C10 as amended: recv_all gives None for end-of-stream and for an I/O
\* fault alike, and for nothing else: a caller tells either from success,
\* not one from the other.
C10_SameOutcome ==
    /\ rCause \in {"eof", "error"} <=> rRet = None
    /\ rRet = None => sFailed

\* an I/O fault after part of the bytes: recv_all gives None
C10_Witness ==
    rCause = "error" /\ rRet = None /\ Len(rData) >= 1

\* C11 as claimed: a payload that does not decode is skipped: the step in
\* which the decode fails leaves the server at the read of the next header.
C11_DecodeRecovered ==
    [][(~sFailed /\ sFailed' /\ Len(delivered') > Len(delivered))
          => spc' = "hdr"]_vars

\* C11 as amended: a payload that does not decode ends the session: the
\* step in which the decode fails displays nothing, leaves the loop and
\* runs the cleanup, and the frame is never displayed.
C11_DecodeFailureEnds ==
    /\ [][(~sFailed /\ sFailed' /\ Len(delivered') > Len(delivered))
            => (spc' = "done" /\ shown' = shown /\ sclosed' /\ ~window')]_vars
    /\ []((sFailed /\ Len(delivered) > shown) => spc = "done")

\* the second frame did not decode after the first was displayed
C11_Witness ==
    sFailed /\ spc = "done" /\ Len(delivered) = 2 /\ shown = 1

\* C12: a failed cap.read() is harmless.  The step writes nothing, leaves
\* clientsocket bound to the same open connection, starts no reconnect and
\* leaves the loop at the next cap.read(); a failure that follows a
\* failure changes nothing at all, so this holds for any number of them.
C12_ReadFailureHarmless ==
    /\ [][(cpc = "read" /\ lastRead # "failed" /\ lastRead' = "failed")
            => /\ cpc' = "read"
               /\ UNCHANGED <<csock, wvars, cclosed, nconn, acceptQ, kvars,
                              connCalls, sendCalls, sendRet, nCaptured,
                              xvars, fvars>>]_vars
    /\ [](cpc = "read" => (csock \in Conns /\ ~cclosed[csock]
                             /\ ccall = "none"))

\* a read failed after a frame was sent whole: the connection is as it was
C12_Witness ==
    /\ cpc = "read" /\ lastRead = "failed"
    /\ csock = 1 /\ ~cclosed[1]
    /\ Len(msgs[1]) = 1 /\ Complete(msgs[1][1])

\* C13: client cleanup on every exit path.  Whenever main() has ended, the
\* capture device is released and every connection the client established
\* is closed.
C13_ClientCleanup ==
    cpc \in {"done", "crashed"} =>
       /\ ~capOpen
       /\ \A c \in Conns : c <= nconn => cclosed[c]

C15_NoHang ==
    (spc \in {"hdr", "payload"} /\ rRet = Pending) ~> (spc = "done")

\* C16: the retry state is reset per call.  Every call of connect_to_server
\* starts with attempt = 0 and no connect made; while it has made fewer
\* than MaxAttempts connects it may make another, and it gives up only
\* after MaxAttempts of them, whatever happened in earlier calls.
C16_RetryReset ==
    /\ [][(cpc # "connect" /\ cpc' = "connect")
            => (attempt' = 0 /\ tries' = 0)]_vars
    /\ []((cpc = "connect" /\ tries < MaxAttempts) => attempt < MaxAttempts)
    /\ [](cpc = "connfailed" => tries = MaxAttempts)

\* a reconnect, after an earlier connection, succeeds at its last attempt
C16_Witness ==
    /\ ccall = "reconnect" /\ cpc = "connected"
    /\ tries = MaxAttempts /\ nconn = 2

\* C17: single session.  Once a connection is accepted the server is bound
\* to it for good: conn never changes, nothing more is taken from the
\* backlog, the listening socket is closed; no payload written on another
\* connection is ever handed to the decoder, and every frame displayed was
\* decoded from the accepted connection.
C17_SingleSession ==
    /\ [][sconn # NoConn
            => (sconn' = sconn /\ Len(acceptQ') >= Len(acceptQ))]_vars
    /\ [](sconn # NoConn => (~listening /\ spc # "accept"))
    /\ [](\A c \in Conns \ {sconn} : \A i \in 1 .. Len(msgs[c]) :
             \A j \in 1 .. Len(delivered) :
                delivered[j] # msgs[c][i].data.body)
    /\ [](shown <= Len(delivered))

\* the session on the first connection is over; a frame written whole on
\* the second connection, still in the backlog, was never displayed
C17_Witness ==
    /\ sconn = 1 /\ spc = "done" /\ acceptQ = <<2>>
    /\ msgs[2] # << >> /\ Complete(msgs[2][1])
    /\ shown = 0

\* C18: the reconnect closes first and ignores close errors.  Whatever the
\* close does, the step the client takes after a failed send, unless it is
\* interrupted, starts connect_to_server with the old connection closed and
\* no connect made yet.
C18_CloseErrorIgnored ==
    [][(cpc = "sendfail" /\ cpc' # "sendfail"
          /\ cexit' # "Stopping client...")
         => /\ cpc' = "connect" /\ ccall' = "reconnect"
            /\ tries' = 0
            /\ cclosed'[csock]]_vars

\* C19: quit ends the server's loop.  Once 'q' is pressed the server leaves
\* its loop and cleans up, also when no further frame arrives.
C19_QuitTerminates == quit ~> (spc = "done")

\* the bytes of the messages ms[i], ms[i + 1], ... as far as each was written
RECURSIVE WireOf(_, _)
WireOf(ms, i) ==
    IF i > Len(ms) THEN << >>
    ELSE Take(Pack(ms[i].data.len).bytes, ms[i].hdrN)
           \o Take(ms[i].data.body, ms[i].bodyN) \o WireOf(ms, i + 1)

\* C20: the stream of a connection is well formed.  The bytes written on a
\* connection are whole messages, header then payload of the declared
\* length, followed by at most one truncated message; send_frame returns
\* True only with the whole message of its frame written; and after it
\* returned False, no byte is ever added to that connection.
C20_StreamWellFormed ==
    /\ [](\A c \in Conns :
            /\ wire[c] = WireOf(msgs[c], 1)
            /\ \A i \in 1 .. Len(msgs[c]) :
                 /\ i < Len(msgs[c]) => Complete(msgs[c][i])
                 /\ msgs[c][i].hdrN < HeaderLen => msgs[c][i].bodyN = 0
                 /\ Big(Len(msgs[c][i].data.body)) = msgs[c][i].data.len)
    /\ [](sendRet = "True" =>
            /\ msgs[csock] # << >>
            /\ Complete(Last(msgs[csock]))
            /\ Last(msgs[csock]).frame = Last(sendCalls))
    /\ [](cpc = "sendfail" =>
            (msgs[csock] # << >> /\ ~Complete(Last(msgs[csock]))))
    /\ [][\A c \in Conns :
            (/\ msgs[c] # << >>
             /\ ~Complete(Last(msgs[c]))
             /\ ~(c = csock /\ cpc = "senddata"))
            => (wire'[c] = wire[c] /\ msgs'[c] = msgs[c])]_vars

\* a whole message, then a message cut inside its payload by a failed send
C20_Witness ==
    /\ sendRet = "False"
    /\ Len(msgs[1]) = 2 /\ Complete(msgs[1][1])
    /\ msgs[1][2].hdrN = HeaderLen /\ msgs[1][2].bodyN = 1
    /\ Len(msgs[1][2].data.body) = 2

====
